---- MODULE Spec2Model ----
(***************************************************************************)
(* A model of pysra/site.py: the IterativeValue convergence primitive, the *)
(* NonlinearProperty log-strain interpolator, the Darendeli / Menq soil    *)
(* types, the Layer strain update and copy, and the Profile geometry,      *)
(* stress, soil-type iteration and location lookup.                        *)
(*                                                                         *)
(* Numbers are exact rationals (n/d, d > 0, in lowest terms) tagged with   *)
(* the Python kind that holds them: "py" for a builtin int/float, "np" for *)
(* a numpy scalar or 0-d array.  The kind matters because a builtin        *)
(* division by zero raises ZeroDivisionError while a numpy division by     *)
(* zero yields inf, -inf or nan.                                           *)
(***************************************************************************)
EXTENDS Integers, Sequences, FiniteSets, TLC

VARIABLES
    iv,        \* the IterativeValue under test: [value, previous]
    ivArgs,    \* the last two values handed to it (constructor or setter)
    ivFresh,   \* no assignment since construction or the last reset()
    ivLast,    \* the last operation applied to it
    ivOut,     \* what the last read of relative_error produced
    nlp,       \* the NonlinearProperty under test
    nlpLast,   \* the last operation applied to it
    nlpArg,    \* the strain of the last call of it
    nlpOut,    \* what the last call of it returned
    lay,       \* the Layer whose strain is assigned
    strainArgs, \* the last two strains assigned since construction / reset()
    layLast,   \* the last operation applied to the layer
    layCopy,   \* what the last Layer.duplicate of the layer returned
    heap,      \* the layers of the profile, by identity: geometry and stress
    prof,      \* the Profile: its list of layers and its water-table depth
    profLast,  \* the last operation applied to the profile or its layers
    profArgs,  \* the arguments of that operation
    profOut,   \* what that operation returned or raised
    soil,      \* the empirical soil type under test, or what building it raised
    soilArgs,  \* the class it was built from and the raw damping handed in
    soilLast,  \* the last operation applied to it
    soilOut    \* what the last call of its damping curve returned

ivVars == <<iv, ivArgs, ivFresh, ivLast, ivOut>>
nlpVars == <<nlp, nlpLast, nlpArg, nlpOut>>
layVars == <<lay, strainArgs, layLast, layCopy>>
profVars == <<heap, prof, profLast, profArgs, profOut>>
soilVars == <<soil, soilArgs, soilLast, soilOut>>
vars == <<ivVars, nlpVars, layVars, profVars, soilVars>>

----------------------------------------------------------------------------
(* Bounds *)

\* IterativeValue values range over -MaxVal..MaxVal
MaxVal == 2

\* the longest strains / values sequence handed to a NonlinearProperty
MaxPts == 4

\* the most layers of a profile, the halfspace included
MaxLayers == 3

----------------------------------------------------------------------------
(* Exact numbers *)

Abs(a) == IF a < 0 THEN -a ELSE a

RECURSIVE Gcd(_, _)
Gcd(a, b) == IF b = 0 THEN a ELSE Gcd(b, a % b)

\* a value of the program: fin is a finite rational n/d; the other shapes are
\* None, the float specials and a raised exception
Num(k, n, d) ==
    LET g == Gcd(Abs(n), Abs(d))
        s == IF d < 0 THEN -1 ELSE 1
    IN  [k |-> k, s |-> "fin", n |-> s * (n \div g), d |-> s * (d \div g)]

Py(n) == Num("py", n, 1)
Np(n) == Num("np", n, 1)
None == [k |-> "none", s |-> "none", n |-> 0, d |-> 1]
Special(k, s) == [k |-> k, s |-> s, n |-> 0, d |-> 1]
Raise(e) == [k |-> "raise", s |-> e, n |-> 0, d |-> 1]

IsFin(v) == v.s = "fin"
IsZero(v) == IsFin(v) /\ v.n = 0

\* the kind of the result of a binary arithmetic operation: numpy wins
Kind2(a, b) == IF a.k = "np" \/ b.k = "np" THEN "np" ELSE "py"

Sub(a, b) == Num(Kind2(a, b), a.n * b.d - b.n * a.d, a.d * b.d)
Mul(a, b) == Num(Kind2(a, b), a.n * b.n, a.d * b.d)
\* division by a non-zero finite number
Div(a, b) == Num(Kind2(a, b), a.n * b.d, a.d * b.n)

\* the largest r in lo..hi with r * r <= n
RECURSIVE FloorSqrt(_, _, _)
FloorSqrt(n, lo, hi) ==
    IF lo >= hi THEN lo
    ELSE LET mid == (lo + hi + 1) \div 2
         IN  IF mid * mid <= n THEN FloorSqrt(n, mid, hi)
             ELSE FloorSqrt(n, lo, mid - 1)
IntRoot(n) == FloorSqrt(n, 0, IF n < 40000 THEN n ELSE 40000)

\* np.sqrt of a finite number that is not negative: the root itself when
\* it is rational, else a number known by its square n/d alone
sqrt(q) ==
    LET rn == IntRoot(q.n)
        rd == IntRoot(q.d)
    IN  IF rn * rn = q.n /\ rd * rd = q.d THEN Num("np", rn, rd)
        ELSE [k |-> "np", s |-> "sqrt", n |-> q.n, d |-> q.d]

\* v ** 2
Square(v) == IF v.s = "sqrt" THEN Num(v.k, v.n, v.d) ELSE Mul(v, v)

\* a == b between two numbers, whatever kind holds them
NumEq(a, b) == a.s = b.s /\ a.n = b.n /\ a.d = b.d

----------------------------------------------------------------------------
(* NonlinearProperty *)

\* Strains are powers of two (in units of the smallest strain); np.log is
\* modelled by the base-2 logarithm, which differs from it by a constant
\* factor that interpolation does not see.
Exps == 0..5
Pow2(k) == 2 ^ k
StrainGrid == {Pow2(k) : k \in Exps}
log(strain) == CHOOSE k \in Exps : Pow2(k) = strain

\* the points of a sequence, ordered by increasing x (interp1d sorts)
RECURSIVE SortIdx(_, _)
SortIdx(x, rest) ==
    IF rest = {} THEN <<>>
    ELSE LET m == CHOOSE i \in rest :
                    \A j \in rest : x[i] < x[j] \/ (x[i] = x[j] /\ i <= j)
         IN  <<m>> \o SortIdx(x, rest \ {m})

NoInterp == [kind |-> "none", x |-> <<>>, y |-> <<>>, fill |-> <<>>]

\* scipy.interpolate.interp1d(x, y, kind, bounds_error=False, fill_value)
SwappedFill(x, y, kind, fill_value) ==
    LET ord == SortIdx(x, DOMAIN x)
    IN  [kind |-> kind,
         x |-> [i \in DOMAIN x |-> x[ord[i]]],
         y |-> [i \in DOMAIN x |-> y[ord[i]]],
         fill |-> <<fill_value[2], fill_value[1]>>]
interp1d(x, y, kind, fill_value) ==
    LET ord == SortIdx(x, DOMAIN x)
    IN  [kind |-> kind,
         x |-> [i \in DOMAIN x |-> x[ord[i]]],
         y |-> [i \in DOMAIN x |-> y[ord[i]]],
         fill |-> fill_value]

\* calling an interp1d object at x: the fill values outside the range of
\* the stored points, the stored value at a stored point, the chord between
\* two stored points for a linear one; what a cubic spline gives between
\* two stored points is not computed here
InterpCall(f, xq) ==
    LET n == Len(f.x)
    IN  IF xq < f.x[1] THEN Np(f.fill[1])
        ELSE IF xq > f.x[n] THEN Np(f.fill[2])
        ELSE IF \E i \in 1..n : f.x[i] = xq
        THEN Np(f.y[CHOOSE i \in 1..n : f.x[i] = xq])
        ELSE IF f.kind = "linear"
        THEN LET i == CHOOSE j \in 1..(n - 1) : f.x[j] < xq /\ xq < f.x[j + 1]
             IN  Num("np",
                     f.y[i] * (f.x[i + 1] - f.x[i])
                         + (f.y[i + 1] - f.y[i]) * (xq - f.x[i]),
                     f.x[i + 1] - f.x[i])
        ELSE Special("np", "spline")

\* _update(): the interpolator is rebuilt only from a non-empty pair of
\* equal size; otherwise it is left as it was
NonlinearProperty_update(self) ==
    IF Len(self.strains) # 0 /\ Len(self.strains) = Len(self.values)
    THEN LET x == [i \in DOMAIN self.strains |-> log(self.strains[i])]
             y == self.values
         IN  [self EXCEPT !.interpolater =
                 interp1d(x, y,
                          IF Len(x) < 4 THEN "linear" ELSE "cubic",
                          <<y[1], y[Len(y)]>>)]
    ELSE self

\* __init__
NonlinearProperty(strains, values) ==
    NonlinearProperty_update(
        [strains |-> strains, values |-> values, interpolater |-> NoInterp])

\* strains.setter, values.setter
SetStrains(self, strains) ==
    NonlinearProperty_update([self EXCEPT !.strains = strains])
SetValues(self, values) ==
    NonlinearProperty_update([self EXCEPT !.values = values])

\* __call__: None is not callable
NonlinearProperty_call(self, strain) ==
    IF self.interpolater = NoInterp
    THEN Raise("TypeError")
    ELSE InterpCall(self.interpolater, log(strain))

----------------------------------------------------------------------------
(* IterativeValue *)

IterativeValue(value) == [value |-> value, previous |-> None]

\* value.setter
BadSetValue(self, value) == [value |-> value, previous |-> self.previous]
SetValue(self, value) == [value |-> value, previous |-> self.value]

\* reset()
BadReset(self) == [value |-> None, previous |-> None]
Reset(self) == [value |-> self.value, previous |-> None]

\* relative_error: 100. * np.max((previous - value) / value), the division
\* raising ZeroDivisionError (caught: inf) only between two builtin numbers
relative_error(self) ==
    IF self.previous # None
    THEN IF self.value = None
         THEN Raise("TypeError")
         ELSE IF IsZero(self.value)
              THEN IF Kind2(self.previous, self.value) = "py"
                   THEN Special("py", "inf")
                   ELSE LET diff == Sub(self.previous, self.value)
                        IN  IF diff.n > 0 THEN Special("np", "inf")
                            ELSE IF diff.n < 0 THEN Special("np", "ninf")
                            ELSE Special("np", "nan")
              ELSE Mul(Np(100), Div(Sub(self.previous, self.value), self.value))
    ELSE Py(0)

----------------------------------------------------------------------------
(* SoilType *)

\* the gravitational constant of the motion module, rounded to an integer
GRAVITY == 10

SoilType(name, unit_wt, mod_reduc, damping) ==
    [name |-> name, unit_wt |-> unit_wt, mod_reduc |-> mod_reduc,
     damping |-> damping]

\* isinstance(p, NonlinearProperty)
IsNonlinearProperty(p) == "interpolater" \in DOMAIN p

is_nonlinear(self) ==
    IsNonlinearProperty(self.mod_reduc) \/ IsNonlinearProperty(self.damping)

density(self) == Div(Py(self.unit_wt), Py(GRAVITY))

\* damping_min: damping.values[0], or damping itself when it has no values
damping_min(self) ==
    IF IsNonlinearProperty(self.damping)
    THEN Np(self.damping.values[1])
    ELSE self.damping

\* p(strain) for an attribute p of a soil type: only a NonlinearProperty is
\* callable, None and a float raise TypeError
Call(p, strain) ==
    IF IsNonlinearProperty(p)
    THEN NonlinearProperty_call(p, strain.n)
    ELSE Raise("TypeError")

----------------------------------------------------------------------------
(* DarendeliSoilType, MenqSoilType *)

\* np.maximum.accumulate: each place holds the largest value up to it
maximum_accumulate(q) ==
    [i \in DOMAIN q |->
        CHOOSE m \in {q[j] : j \in 1..i} : \A j \in 1..i : q[j] <= m]

\* the attributes DarendeliSoilType.__init__ has assigned when it calls the
\* hooks _calc_strain_ref, _calc_curvature and _calc_damping_min
DarendeliAttrs ==
    {"_plas_index", "_ocr", "_mean_stress", "_freq", "_num_cycles"}

\* the attributes the hooks of a class read
HookReads(cls) ==
    IF cls = "MenqSoilType"
    THEN {"_uniformity_coeff", "_diam_mean", "_mean_stress"}
    ELSE {"_plas_index", "_ocr", "_mean_stress", "_freq"}

\* the modified hyperbolic modulus reduction 1 / (1 + (strain / ref) ^ a)
\* over a grid of n increasing strains: positive and decreasing, here in
\* whole steps
HyperbolicModReduc(n) == [i \in 1..n |-> n + 1 - i]

\* DarendeliSoilType.__init__, which MenqSoilType.__init__ runs first (it
\* assigns _uniformity_coeff and _diam_mean only after it returns).  The
\* damping in percent that the Masing formulas give over the strain grid is
\* an input here, raw; the curve stored is its running maximum, in decimal.
DarendeliSoilType(cls, name, unit_wt, strains, raw) ==
    IF ~(HookReads(cls) \subseteq DarendeliAttrs)
    THEN Raise("AttributeError")
    ELSE LET damping == maximum_accumulate(raw)
         IN  SoilType(name, unit_wt,
                      NonlinearProperty(strains,
                                        HyperbolicModReduc(Len(strains))),
                      NonlinearProperty(strains,
                          [i \in DOMAIN damping |-> damping[i] \div 100]))

\* whether building a soil type returned one, rather than raising
IsSoilType(s) == "damping" \in DOMAIN s

\* MenqSoilType.__init__
MenqSoilType(name, unit_wt, strains, raw) ==
    DarendeliSoilType("MenqSoilType", name, unit_wt, strains, raw)

----------------------------------------------------------------------------
(* Layer *)

initial_shear_mod(self) ==
    Mul(density(self.soil_type), Square(self.initial_shear_vel))

\* reset()
Layer_reset(self) ==
    [self EXCEPT
        !.shear_mod = IterativeValue(initial_shear_mod(self)),
        !.damping = IterativeValue(damping_min(self.soil_type)),
        !.strain = IterativeValue(None)]

\* __init__
Layer(soil_type, thickness, shear_vel) ==
    Layer_reset(
        [soil_type |-> soil_type, thickness |-> thickness,
         initial_shear_vel |-> shear_vel,
         damping |-> None, shear_mod |-> None, strain |-> None])

\* shear_vel: the strain-compatible velocity sqrt(shear_mod.value / density)
shear_vel(self) ==
    sqrt(Div(self.shear_mod.value, density(self.soil_type)))

\* duplicate(other)
Layer_duplicate(other) ==
    Layer(other.soil_type, other.thickness, shear_vel(other))

\* strain.setter: the modulus reduction at the strain, 1. when calling
\* mod_reduc raises TypeError
NoModReduc(self, strain) == Py(1)
ModReducFor(self, strain) ==
    LET r == Call(self.soil_type.mod_reduc, strain)
    IN  IF r = Raise("TypeError") THEN Py(1) ELSE r

\* strain.setter: the damping at the strain, soil_type.damping when calling
\* damping raises TypeError
StrainAsDamping(self, strain) == strain
DampingFor(self, strain) ==
    LET r == Call(self.soil_type.damping, strain)
    IN  IF r = Raise("TypeError") THEN self.soil_type.damping ELSE r

\* strain.setter
Layer_set_strain(self, strain) ==
    [self EXCEPT
        !.strain = IF is_nonlinear(self.soil_type)
                   THEN SetValue(self.strain, strain)
                   ELSE strain,
        !.shear_mod = SetValue(self.shear_mod,
                               Mul(initial_shear_mod(self),
                                   ModReducFor(self, strain))),
        !.damping = SetValue(self.damping, DampingFor(self, strain))]

----------------------------------------------------------------------------
(* Profile, and the geometry of its layers *)

\* Layers are objects: heap maps the identity of a layer to its thickness,
\* its soil type and the unit weight of it, the depth and the total vertical
\* stress at its top, and whether its back-reference to the profile is set.
\* A profile lists the identities of its layers, the halfspace last.
GeomLayer(thickness, soil_type) ==
    [thickness |-> thickness, soil_type |-> soil_type,
     unit_wt |-> soil_type.unit_wt, depth |-> 0,
     vert_stress |-> 0, profile |-> FALSE]

depth_base(l) == l.depth + l.thickness

\* Layer.vert_stress(depth_within, effective=False)
vert_stress(l, depth_within) ==
    IF depth_within <= l.thickness
    THEN [ok |-> TRUE, v |-> l.vert_stress + depth_within * l.unit_wt]
    ELSE [ok |-> FALSE, v |-> 0]

\* the loop of update_layers over self[start_layer:], read as the plain list
\* of the layers from that place on (what slicing a UserList gave when the
\* code was written); i counts the places from 1
RECURSIVE UpdateLoop(_, _, _, _, _)
UpdateLoop(h, layers, i, depth, stress) ==
    IF i > Len(layers) THEN h
    ELSE LET id == layers[i]
             h1 == [h EXCEPT ![id].profile = TRUE,
                             ![id].depth = depth,
                             ![id].vert_stress = stress]
         IN  IF id # layers[Len(layers)]
             THEN UpdateLoop(h1, layers, i + 1, depth_base(h1[id]),
                             vert_stress(h1[id], h1[id].thickness).v)
             ELSE UpdateLoop(h1, layers, i + 1, depth, stress)

\* Profile.update_layers(start_layer), 0 <= start_layer <= len(self)
NoChaining(h, layers, start_layer) ==
    [id \in DOMAIN h |->
        IF \E i \in (start_layer + 1)..Len(layers) : layers[i] = id
        THEN [h[id] EXCEPT !.profile = TRUE, !.depth = 0, !.vert_stress = 0]
        ELSE h[id]]
update_layers(h, layers, start_layer) ==
    IF start_layer < 1
    THEN UpdateLoop(h, layers, 1, 0, 0)
    ELSE LET ref_layer == h[layers[start_layer]]
         IN  UpdateLoop(h, layers, start_layer + 1, depth_base(ref_layer),
                        vert_stress(ref_layer, ref_layer.thickness).v)

\* Profile.__init__(layers, wt_depth)
Profile(h, layers, wt_depth) ==
    [heap |-> IF layers # <<>> THEN update_layers(h, layers, 0) ELSE h,
     prof |-> [layers |-> layers, wt_depth |-> wt_depth]]

\* Profile.pore_pressure(depth): GRAVITY * max(depth - self.wt_depth, 0)
Max(a, b) == IF a >= b THEN a ELSE b
Unclamped(self, depth) == GRAVITY * (depth - self.wt_depth)
pore_pressure(self, depth) == GRAVITY * Max(depth - self.wt_depth, 0)

\* Layer.vert_stress(depth_within, effective): the assertion first, then
\* the total stress, less the pore pressure of the layer's profile when
\* effective (a layer that no profile holds has none to ask)
Value(v) == [ok |-> TRUE, err |-> "", v |-> v]
Raised(err) == [ok |-> FALSE, err |-> err, v |-> 0]
Layer_vert_stress(l, profile, depth_within, effective) ==
    LET total == vert_stress(l, depth_within)
    IN  IF ~total.ok THEN Raised("AssertionError")
        ELSE IF ~effective THEN Value(total.v)
        ELSE IF ~l.profile THEN Raised("AttributeError")
        ELSE Value(total.v - pore_pressure(profile, l.depth + depth_within))

\* hash(x): a layer hashes by identity; SoilType defines __eq__ and no
\* __hash__, which leaves its instances unhashable
Hashable(x) == ~("unit_wt" \in DOMAIN x)

\* Profile.iter_soil_types(), run to its end: what it yielded, and the
\* exception that ended it if one did.  Testing layer.soil_type against the
\* set hashes the soil type; what is added to the set is the layer.
RECURSIVE IterSoilTypes(_, _, _, _, _)
IterSoilTypes(h, layers, i, yielded, out) ==
    IF i > Len(layers) THEN [ok |-> TRUE, err |-> "", yields |-> out]
    ELSE LET soil_type == h[layers[i]].soil_type
         IN  IF ~Hashable(soil_type)
             THEN [ok |-> FALSE, err |-> "TypeError", yields |-> out]
             ELSE IF soil_type \in yielded
             THEN IterSoilTypes(h, layers, i + 1, yielded, out)
             ELSE IterSoilTypes(h, layers, i + 1,
                                yielded \cup {layers[i]},
                                Append(out, soil_type))
iter_soil_types(h, layers) == IterSoilTypes(h, layers, 1, {}, <<>>)

\* list.index(layer): the first place that holds the layer, from 0
IndexOf(layers, id) ==
    (CHOOSE i \in 1..Len(layers) :
        layers[i] = id /\ \A j \in 1..(i - 1) : layers[j] # id) - 1

\* Layer.thickness setter: the thickness is stored, then update_layers is
\* called with one positional argument too many, which raises TypeError
\* before it runs (AttributeError on a layer that no profile holds)
Layer_set_thickness(h, layers, id, thickness) ==
    [heap |-> [h EXCEPT ![id].thickness = thickness],
     out |-> IF h[id].profile THEN Raise("TypeError")
             ELSE Raise("AttributeError")]

\* an optional argument: given with a value, or left at None
Arg(v) == [given |-> TRUE, v |-> v]
NoArg == [given |-> FALSE, v |-> 0]

\* the members of the WaveField enumeration of the motion module
WaveField == {"outcrop", "within", "incoming_only"}

Location(index, layer, wave_field, depth_within) ==
    [ok |-> TRUE, err |-> "", index |-> index, layer |-> layer,
     depth_within |-> depth_within, wave_field |-> wave_field]
Failure(err) ==
    [ok |-> FALSE, err |-> err, index |-> 0, layer |-> 0,
     depth_within |-> 0, wave_field |-> ""]

\* Profile.location, by depth: the first finite layer whose range holds the
\* depth, else the halfspace at its top; places count from 0 as in Python
LocateByDepth(h, layers, wave_field, depth) ==
    LET hit(i) == /\ h[layers[i]].depth <= depth
                  /\ depth < depth_base(h[layers[i]])
        n == Len(layers)
    IN  IF \E i \in 1..(n - 1) : hit(i)
        THEN LET i == CHOOSE j \in 1..(n - 1) :
                         hit(j) /\ \A m \in 1..(j - 1) : ~hit(m)
             IN  Location(i - 1, layers[i], wave_field,
                          depth - h[layers[i]].depth)
        ELSE Location(n - 1, layers[n], wave_field, 0)

\* Profile.location, by index: layer = self[index], where a negative index
\* counts from the end of the list, and i = self.index(layer)
UnnormalizedIndex(layers, wave_field, index) ==
    LET n == Len(layers)
    IN  IF index < -n \/ index >= n
        THEN Failure("IndexError")
        ELSE Location(index,
                      layers[IF index >= 0 THEN index + 1 ELSE n + index + 1],
                      wave_field, 0)
LocateByIndex(layers, wave_field, index) ==
    LET n == Len(layers)
    IN  IF index < -n \/ index >= n
        THEN Failure("IndexError")
        ELSE LET l == layers[IF index >= 0 THEN index + 1
                             ELSE n + index + 1]
             IN  Location(IndexOf(layers, l), l, wave_field, 0)

\* Profile.location(wave_field, depth, index)
location(h, layers, wave_field, depth, index) ==
    IF wave_field \notin WaveField THEN Failure("KeyError")
    ELSE IF ~index.given /\ depth.given
    THEN LocateByDepth(h, layers, wave_field, depth.v)
    ELSE IF index.given /\ ~depth.given
    THEN LocateByIndex(layers, wave_field, index.v)
    ELSE Failure("NotImplementedError")

----------------------------------------------------------------------------
(* Idle components *)

\* a component that a specification leaves aside stays in its idle state
IVIdle ==
    /\ iv = IterativeValue(None)
    /\ ivArgs = <<None, None>>
    /\ ivFresh = TRUE
    /\ ivLast = "idle"
    /\ ivOut = None

NLPIdle ==
    /\ nlp = NonlinearProperty(<<>>, <<>>)
    /\ nlpLast = "idle"
    /\ nlpArg = 0
    /\ nlpOut = None

LayerIdle ==
    /\ lay = Layer(SoilType("", 0, None, None), 0, Py(0))
    /\ strainArgs = <<None, None>>
    /\ layLast = "idle"
    /\ layCopy = None

ProfileIdle ==
    /\ heap = <<>>
    /\ prof = [layers |-> <<>>, wt_depth |-> 0]
    /\ profLast = "idle"
    /\ profArgs = <<>>
    /\ profOut = Failure("")

SoilIdle ==
    /\ soil = None
    /\ soilArgs = <<>>
    /\ soilLast = "idle"
    /\ soilOut = None

----------------------------------------------------------------------------
(* IterativeValue: operations *)

\* the values a caller stores: None, builtin numbers and numpy numbers
IVals == {None} \cup {Py(n) : n \in -MaxVal..MaxVal}
                \cup {Np(n) : n \in -MaxVal..MaxVal}

IVInit ==
    /\ \E v \in IVals :
        /\ iv = IterativeValue(v)
        /\ ivArgs = <<None, v>>
        /\ ivFresh = TRUE
        /\ ivLast = "init"
        /\ ivOut = None
    /\ NLPIdle
    /\ LayerIdle
    /\ ProfileIdle
    /\ SoilIdle

IVAssign ==
    \E v \in IVals :
        /\ iv' = SetValue(iv, v)
        /\ ivArgs' = <<ivArgs[2], v>>
        /\ ivFresh' = FALSE
        /\ ivLast' = "set"
        /\ ivOut' = None
        /\ UNCHANGED <<nlpVars, layVars, profVars, soilVars>>

IVReset ==
    /\ iv' = Reset(iv)
    /\ ivFresh' = TRUE
    /\ ivLast' = "reset"
    /\ ivOut' = None
    /\ UNCHANGED <<ivArgs, nlpVars, layVars, profVars, soilVars>>

IVReadError ==
    /\ ivOut' = relative_error(iv)
    /\ ivLast' = "read"
    /\ UNCHANGED <<iv, ivArgs, ivFresh,
                   nlpVars, layVars, profVars, soilVars>>

IVNext == IVAssign \/ IVReset \/ IVReadError

SpecIV == IVInit /\ [][IVNext]_vars

----------------------------------------------------------------------------
(* NonlinearProperty: operations *)

\* the sequences a caller hands in: increasing strains (none, or two and
\* more) from the inner part of the grid, which leaves a strain of the grid
\* below and above every stored curve, and values of any length
IsIncreasing(q) == \A i \in 1..(Len(q) - 1) : q[i] < q[i + 1]
StoredStrains == {Pow2(k) : k \in 1..4}
StrainSeqs ==
    {q \in UNION {[1..n -> StoredStrains] : n \in (0..MaxPts) \ {1}} :
        IsIncreasing(q)}
YVals == {1, 3}
ValueSeqs == UNION {[1..n -> YVals] : n \in 0..MaxPts}

NLPInit ==
    /\ \E s \in StrainSeqs, v \in ValueSeqs : nlp = NonlinearProperty(s, v)
    /\ nlpLast = "init"
    /\ nlpArg = 0
    /\ nlpOut = None
    /\ IVIdle
    /\ LayerIdle
    /\ ProfileIdle
    /\ SoilIdle

NLPSetStrains ==
    \E s \in StrainSeqs :
        /\ nlp' = SetStrains(nlp, s)
        /\ nlpLast' = "strains"
        /\ nlpArg' = 0
        /\ nlpOut' = None
        /\ UNCHANGED <<ivVars, layVars, profVars, soilVars>>

NLPSetValues ==
    \E v \in ValueSeqs :
        /\ nlp' = SetValues(nlp, v)
        /\ nlpLast' = "values"
        /\ nlpArg' = 0
        /\ nlpOut' = None
        /\ UNCHANGED <<ivVars, layVars, profVars, soilVars>>

\* the strains a caller asks for: one below and one above every stored
\* curve, and two that a curve may store or hold between its points
CallStrains == {1, 4, 8, 32}

NLPCall ==
    \E s \in CallStrains :
        /\ nlpOut' = NonlinearProperty_call(nlp, s)
        /\ nlpArg' = s
        /\ nlpLast' = "call"
        /\ UNCHANGED <<nlp, ivVars, layVars, profVars, soilVars>>

NLPNext == NLPSetStrains \/ NLPSetValues \/ NLPCall

SpecNLP == NLPInit /\ [][NLPNext]_vars

----------------------------------------------------------------------------
(* Layer: operations *)

\* the soil types a caller builds: a linear one, one with both curves, and
\* one with each curve alone
SoilTypes ==
    {SoilType("elastic", 18, None, Num("py", 1, 50)),
     SoilType("clay", 16,
              NonlinearProperty(<<1, 4>>, <<1, 0>>),
              NonlinearProperty(<<1, 2, 4, 8>>, <<0, 1, 2, 3>>)),
     SoilType("sand", 18,
              NonlinearProperty(<<2, 4, 8>>, <<2, 1, 0>>),
              Num("py", 1, 20)),
     SoilType("silt", 20, None, NonlinearProperty(<<2, 8>>, <<0, 3>>))}
ShearVels == {200, 760}
LayerThicknesses == {10, 15}
StrainInputs == {Py(x) : x \in StrainGrid}

LayerInit ==
    /\ \E st \in SoilTypes, t \in LayerThicknesses, v \in ShearVels :
          lay = Layer(st, t, Py(v))
    /\ strainArgs = <<None, None>>
    /\ layLast = "init"
    /\ layCopy = None
    /\ IVIdle
    /\ NLPIdle
    /\ ProfileIdle
    /\ SoilIdle

LayerSetStrain ==
    \E x \in StrainInputs :
        /\ lay' = Layer_set_strain(lay, x)
        /\ strainArgs' = <<strainArgs[2], x>>
        /\ layLast' = "strain"
        /\ layCopy' = None
        /\ UNCHANGED <<ivVars, nlpVars, profVars, soilVars>>

LayerReset ==
    /\ lay' = Layer_reset(lay)
    /\ strainArgs' = <<None, None>>
    /\ layLast' = "reset"
    /\ layCopy' = None
    /\ UNCHANGED <<ivVars, nlpVars, profVars, soilVars>>

\* Layer.duplicate(layer)
LayerDuplicate ==
    /\ layCopy' = Layer_duplicate(lay)
    /\ layLast' = "duplicate"
    /\ UNCHANGED <<lay, strainArgs, ivVars, nlpVars, profVars, soilVars>>

LayerNext == LayerSetStrain \/ LayerReset \/ LayerDuplicate

SpecLayer == LayerInit /\ [][LayerNext]_vars

----------------------------------------------------------------------------
(* Profile: operations *)

\* the lists a caller hands in hold distinct layers, numbered by their
\* place, every other one of the same soil type; thicknesses, water-table
\* depths and the arguments of location are drawn from small sets
LayerLists == {[i \in 1..n |-> i] : n \in 1..MaxLayers}
Objects(q) == {q[i] : i \in DOMAIN q}
Thicknesses == {10, 15}
UnitWtOf(id) == 18 + ((id + 1) % 2)
SoilTypeOf(id) ==
    SoilType(IF id % 2 = 1 THEN "sand" ELSE "clay", UnitWtOf(id), None,
             Num("py", 1, 20))
WtDepths == {0, 12}
DepthArgs == {-1, 0, 9, 10, 12, 24, 25, 40, 50}
IndexArgs == (-(MaxLayers + 1))..MaxLayers
WaveFieldArgs == {"outcrop", "bogus"}
LocationArgs ==
    {<<Arg(x), NoArg>> : x \in DepthArgs}
        \cup {<<NoArg, Arg(x)>> : x \in IndexArgs}
        \cup {<<Arg(x), Arg(y)>> : x \in {0, 12}, y \in {-1, 0}}
        \cup {<<NoArg, NoArg>>}

ProfileInit ==
    /\ \E q \in LayerLists, w \in WtDepths :
          \E t \in [Objects(q) -> Thicknesses] :
              LET p == Profile([id \in Objects(q) |->
                                   GeomLayer(t[id], SoilTypeOf(id))], q, w)
              IN  heap = p.heap /\ prof = p.prof
    /\ profLast = "init"
    /\ profArgs = <<>>
    /\ profOut = Failure("")
    /\ IVIdle
    /\ NLPIdle
    /\ LayerIdle
    /\ SoilIdle

\* layer.thickness = t, for a layer of the profile
SetThickness ==
    \E id \in DOMAIN heap, t \in Thicknesses :
        LET r == Layer_set_thickness(heap, prof.layers, id, t)
        IN  /\ heap' = r.heap
            /\ profOut' = [Failure(r.out.s) EXCEPT !.layer = id]
            /\ profLast' = "thickness"
            /\ profArgs' = <<id, t>>
            /\ UNCHANGED <<prof, ivVars, nlpVars, layVars, soilVars>>

\* profile.update_layers(start_layer)
UpdateLayers ==
    \E start \in 0..Len(prof.layers) :
        /\ heap' = update_layers(heap, prof.layers, start)
        /\ profOut' = Failure("")
        /\ profLast' = "update"
        /\ profArgs' = <<start>>
        /\ UNCHANGED <<prof, ivVars, nlpVars, layVars, soilVars>>

\* profile.location(wave_field, depth, index)
Locate ==
    \E wf \in WaveFieldArgs, a \in LocationArgs :
        /\ profOut' = location(heap, prof.layers, wf, a[1], a[2])
        /\ profLast' = "location"
        /\ profArgs' = <<wf, a[1], a[2]>>
        /\ UNCHANGED <<heap, prof, ivVars, nlpVars, layVars, soilVars>>

\* layer.vert_stress(depth_within, effective), for a layer of the profile
DepthsWithin == {0, 5, 10, 15, 20}
VertStress ==
    \E id \in DOMAIN heap, dw \in DepthsWithin, eff \in BOOLEAN :
        /\ profOut' = Layer_vert_stress(heap[id], prof, dw, eff)
        /\ profLast' = "vert_stress"
        /\ profArgs' = <<id, dw, eff>>
        /\ UNCHANGED <<heap, prof, ivVars, nlpVars, layVars, soilVars>>

\* list(profile.iter_soil_types())
SoilTypesOf ==
    /\ profOut' = iter_soil_types(heap, prof.layers)
    /\ profLast' = "soil_types"
    /\ profArgs' = <<>>
    /\ UNCHANGED <<heap, prof, ivVars, nlpVars, layVars, soilVars>>

ProfileNext ==
    SetThickness \/ UpdateLayers \/ Locate \/ VertStress \/ SoilTypesOf

SpecProfile == ProfileInit /\ [][ProfileNext]_vars

----------------------------------------------------------------------------
(* Empirical soil types: operations *)

\* the strain grid a caller chooses, of n points, and the raw damping in
\* percent over it: any sequence, in whole hundredths once in decimal
SoilClasses == {"DarendeliSoilType", "MenqSoilType"}
GridOf(n) == [i \in 1..n |-> Pow2(i)]
RawDampings == UNION {[1..n -> {100, 200, 300}] : n \in 2..MaxPts}

SoilInit ==
    /\ \E cls \in SoilClasses, raw \in RawDampings :
        /\ soil = IF cls = "MenqSoilType"
                  THEN MenqSoilType("gravel", 20, GridOf(Len(raw)), raw)
                  ELSE DarendeliSoilType(cls, "clay", 18,
                                         GridOf(Len(raw)), raw)
        /\ soilArgs = <<cls, raw>>
    /\ soilLast = "init"
    /\ soilOut = None
    /\ IVIdle
    /\ NLPIdle
    /\ LayerIdle
    /\ ProfileIdle

\* soil.damping(strain), for a soil type that was built
SoilDamping ==
    /\ IsSoilType(soil)
    /\ \E s \in StrainGrid :
        /\ soilOut' = Call(soil.damping, Py(s))
        /\ soilLast' = "damping"
        /\ UNCHANGED <<soil, soilArgs, ivVars, nlpVars, layVars, profVars>>

SoilNext == SoilDamping

SpecSoil == SoilInit /\ [][SoilNext]_vars

----------------------------------------------------------------------------
(* Claims about IterativeValue, checked under SpecIV *)

\* C5 (as stated): after at least one assignment since construction, value
\* is the last value assigned and previous the one handed in just before
\* it; previous is None only before the first assignment or after reset().
C5_PreviousNoneOnlyWhenFresh ==
    /\ (~ivFresh => iv.value = ivArgs[2] /\ iv.previous = ivArgs[1])
    /\ (iv.previous = None => ivFresh)

\* C5 (amended): every assignment shifts the old value into previous, so
\* after an assignment value is the last value assigned and previous the
\* value it replaced; previous is None only before the first assignment,
\* after reset(), or when the value that was replaced was itself None.
C5_AssignShifts ==
    /\ (~ivFresh => iv.value = ivArgs[2] /\ iv.previous = ivArgs[1])
    /\ (iv.previous = None => ivFresh \/ ivArgs[1] = None)

C5_Witness ==
    /\ ~ivFresh
    /\ ivLast = "set"
    /\ iv.value = Np(2)
    /\ iv.previous = Py(1)

\* C6: relative_error is 0 when previous is absent, and when previous
\* exists and the current value is zero it is an explicit infinite error
\* (never an exception, a finite number or an undefined value), whatever
\* previous is.
C6_ZeroValueIsInfinite ==
    ivLast = "read" =>
        /\ (iv.previous = None => IsZero(ivOut))
        /\ (iv.previous # None /\ IsZero(iv.value) => ivOut.s = "inf")

\* C7: reset() clears previous and leaves value unchanged, so that
\* relative_error is 0 right after it; the first assignment after a reset
\* (or after construction) then makes previous the value that was kept.
C7_ResetKeepsValue ==
    [][/\ (ivLast' = "reset" =>
              /\ iv'.previous = None
              /\ iv'.value = ivArgs[2]
              /\ relative_error(iv') = Py(0))
       /\ (ivFresh /\ ivLast' = "set" => iv'.previous = ivArgs[2])]_vars

C7_Witness ==
    /\ ivLast = "reset"
    /\ ivArgs = <<Py(1), Np(0)>>
    /\ iv.previous = None
    /\ iv.value = Np(0)

\* C15: relative_error is a non-negative measure of change: whenever
\* previous exists and differs from a value that is not zero, it is greater
\* than 0, whether the value went up or down between the two iterations.
C15_ErrorIsPositive ==
    /\ ivLast = "read"
    /\ iv.previous # None
    /\ iv.value # None
    /\ ~IsZero(iv.value)
    /\ Sub(iv.previous, iv.value).n # 0
    => IsFin(ivOut) /\ ivOut.n > 0

----------------------------------------------------------------------------
(* Claims about NonlinearProperty, checked under SpecNLP *)

\* C10: after any assignment to strains or values the interpolator is the
\* one built from the current strains / values pair, never one built from
\* strains or values that have since been replaced, also when the
\* assignment leaves the two sequences with different lengths.
C10_InterpolatorIsCurrent ==
    nlpLast \in {"strains", "values"} /\ nlp.interpolater # NoInterp =>
        /\ Len(nlp.interpolater.x) = Len(nlp.strains)
        /\ Len(nlp.interpolater.y) = Len(nlp.values)
        /\ \A i \in DOMAIN nlp.interpolater.x :
              /\ Pow2(nlp.interpolater.x[i]) = nlp.strains[i]
              /\ nlp.interpolater.y[i] = nlp.values[i]

----------------------------------------------------------------------------
(* Claims about Layer.strain, checked under SpecLayer *)

\* what a curve of a soil type gives at a strain, read off the curve itself;
\* an absent modulus-reduction curve is no reduction, a scalar damping is
\* constant
CurveAt(p, strain, otherwise) ==
    IF IsNonlinearProperty(p)
    THEN InterpCall(p.interpolater, log(strain.n))
    ELSE otherwise

\* C3: after any sequence of strain assignments on a layer with a nonlinear
\* soil type, shear_mod.value is initial_shear_mod times the modulus
\* reduction at the last assigned strain, damping.value is the damping curve
\* at that strain, strain.value is that strain and strain.previous is the
\* strain assigned just before it.
C3_DerivedFollowStrain ==
    layLast = "strain" /\ is_nonlinear(lay.soil_type) =>
        /\ lay.shear_mod.value =
              Mul(initial_shear_mod(lay),
                  CurveAt(lay.soil_type.mod_reduc, strainArgs[2], Py(1)))
        /\ lay.damping.value =
              CurveAt(lay.soil_type.damping, strainArgs[2],
                      lay.soil_type.damping)
        /\ lay.strain.value = strainArgs[2]
        /\ lay.strain.previous = strainArgs[1]

C3_Witness ==
    /\ layLast = "strain"
    /\ lay.soil_type.name = "clay"
    /\ strainArgs = <<Py(8), Py(2)>>
    /\ lay.shear_mod.previous = Np(0)
    /\ lay.shear_mod.value = Mul(initial_shear_mod(lay), Num("np", 1, 2))
    /\ lay.damping.value = Np(1)

\* C4: for a layer whose soil type is linear (no modulus-reduction curve, a
\* scalar damping), shear_mod.value stays equal to initial_shear_mod and
\* damping.value to soil_type.damping after any sequence of strain
\* assignments.
C4_LinearStaysInitial ==
    ~is_nonlinear(lay.soil_type) =>
        /\ lay.shear_mod.value = initial_shear_mod(lay)
        /\ lay.damping.value = lay.soil_type.damping

C4_Witness ==
    /\ layLast = "strain"
    /\ lay.soil_type.name = "elastic"
    /\ strainArgs = <<Py(1), Py(8)>>
    /\ lay.strain = Py(8)
    /\ lay.shear_mod.previous = initial_shear_mod(lay)
    /\ lay.damping.previous = Num("py", 1, 50)

\* C16: Layer.duplicate(other) returns a fresh layer of the soil type, the
\* thickness and the initial_shear_vel of other, in every state of other,
\* also after strains were assigned to it: the copy starts from the
\* small-strain velocity, not from the strain-compatible one.
C16_CopyKeepsInitialVelocity ==
    layLast = "duplicate" =>
        /\ layCopy.soil_type = lay.soil_type
        /\ layCopy.thickness = lay.thickness
        /\ NumEq(layCopy.initial_shear_vel, lay.initial_shear_vel)
        /\ layCopy.strain = IterativeValue(None)
        /\ layCopy.shear_mod.previous = None
        /\ layCopy.damping.previous = None

----------------------------------------------------------------------------
(* Claims about Profile, checked under SpecProfile *)

NumLayers == Len(prof.layers)
LayerAt(i) == heap[prof.layers[i]]

\* the depth at the top of each layer below the first is the depth at the
\* base of the layer above it
DepthsChain ==
    \A i \in 2..NumLayers :
        LayerAt(i).depth = LayerAt(i - 1).depth + LayerAt(i - 1).thickness

\* C1: after a new thickness is assigned to a layer of a profile, the depth
\* of every layer below the first is the depth at the base of the layer
\* above it, computed with the new thickness, and the assignment does not
\* raise.
C1_ThicknessKeepsChain ==
    profLast = "thickness" =>
        /\ DepthsChain
        /\ LayerAt(profArgs[1]).thickness = profArgs[2]
        /\ profOut.err = ""

OnlyDepth == profArgs[2].given /\ ~profArgs[3].given
OnlyIndex == profArgs[3].given /\ ~profArgs[2].given

C9_HalfspaceOnlyBelowItsTop ==
    profLast = "location" /\ OnlyDepth /\ profOut.ok =>
        LET d == profArgs[2].v
            n == NumLayers
            holds(i) == LayerAt(i).depth <= d /\ d < depth_base(LayerAt(i))
            i == profOut.index + 1
        IN  IF i < n
            THEN /\ holds(i)
                 /\ \A m \in 1..(i - 1) : ~holds(m)
                 /\ profOut.depth_within = d - LayerAt(i).depth
            ELSE /\ profOut.depth_within = 0
                 /\ d >= LayerAt(n).depth

\* C12: vert_stress(depth_within, effective) fails, and changes nothing of
\* the layers or the profile, whenever depth_within > thickness; when
\* depth_within <= thickness it returns the stress at the top of the layer
\* plus depth_within * unit_wt, less the pore pressure
\* gravity * max(depth + depth_within - wt_depth, 0) only when effective.
C12_VertStressWithinLayer ==
    [][profLast' = "vert_stress" =>
          LET l == heap[profArgs'[1]]
              dw == profArgs'[2]
              eff == profArgs'[3]
              below == l.depth + dw - prof.wt_depth
          IN  /\ heap' = heap
              /\ prof' = prof
              /\ IF dw > l.thickness
                 THEN ~profOut'.ok
                 ELSE /\ profOut'.ok
                      /\ profOut'.v =
                            l.vert_stress + dw * l.unit_wt
                                - (IF eff /\ below > 0
                                   THEN GRAVITY * below ELSE 0)]_vars

C12_Witness ==
    /\ profLast = "vert_stress"
    /\ NumLayers = 3
    /\ prof.wt_depth = 12
    /\ LayerAt(1).thickness = 10
    /\ LayerAt(2).thickness = 15
    /\ profArgs = <<2, 15, TRUE>>
    /\ profOut.ok
    /\ profOut.v = (10 * 18 + 15 * 19) - GRAVITY * 13

\* C14: iter_soil_types() ends without an error on any profile and yields
\* every soil type that some layer uses exactly once: a soil type that
\* several layers share is not yielded twice.
C14_EachSoilTypeOnce ==
    profLast = "soil_types" =>
        /\ profOut.ok
        /\ {profOut.yields[i] : i \in DOMAIN profOut.yields} =
              {LayerAt(i).soil_type : i \in 1..NumLayers}
        /\ \A i, j \in DOMAIN profOut.yields :
              i # j => profOut.yields[i] # profOut.yields[j]

----------------------------------------------------------------------------
(* Claims about the empirical soil types, checked under SpecSoil *)

\* C13: a DarendeliSoilType and a MenqSoilType store a damping curve that
\* is non-decreasing over the strain grid, values[j] <= values[j + 1] for
\* every two adjacent grid points, for any raw damping sequence: the stored
\* curve is the running maximum of the raw one.
C13_StoredDampingNonDecreasing ==
    /\ IsSoilType(soil)
    /\ Len(soil.damping.values) = Len(soilArgs[2])
    /\ \A j \in 1..(Len(soil.damping.values) - 1) :
          soil.damping.values[j] <= soil.damping.values[j + 1]
    /\ \A j \in DOMAIN soil.damping.values :
          /\ \A i \in 1..j : soilArgs[2][i] <= 100 * soil.damping.values[j]
          /\ \E i \in 1..j : soilArgs[2][i] = 100 * soil.damping.values[j]

====
